---- MODULE Spec2Model ----
(***************************************************************************)
(* Model of the risk evaluator of the Disaster Alert System                *)
(* (backend/functions/risk_engine.py).                                     *)
(*                                                                         *)
(* Units.  A point in time is an integer number of seconds; the epoch 0 is *)
(* arbitrary.  A float that the code rounds to two decimals                *)
(* (round(x, 2)) is held as an integer number of hundredths, so            *)
(* confidence_score 0.83 is 83 and persistence_duration_hrs 6.0 is 600.    *)
(* An observation is a Python dict: a function whose DOMAIN is the set of  *)
(* keys that are present.  A timestamp value is a string; it is held as a  *)
(* record [kind |-> "iso", at |-> t] (an ISO-8601 text with an offset,     *)
(* denoting the instant t) or [kind |-> "garbage", at |-> 0] (a text that  *)
(* datetime.fromisoformat rejects).                                        *)
(***************************************************************************)
EXTENDS Integers, Sequences, FiniteSets, TLC

VARIABLES
    history,    \* the argument of evaluate_risk: a sequence of dicts
    now,        \* the wall-clock time read at risk_engine.py:30
    pc,         \* "call" before the call, "done" after it
    result,     \* the outcome of the call
    db,         \* main.py:55, whether the Firestore client exists
    users,      \* the 'users' collection: document id -> document
    outbox,     \* the calls of notifier.send_high_risk_alert made or scheduled
    queries,    \* the number of queries made on the 'users' collection
    request,    \* the arguments of the last call or request
    hist,       \* the 'history' sub-collection of a place: hour_id -> document
    place,      \* the document of the place in 'places', a dict
    tasks,      \* the background tasks that wait to run
    clock,      \* the wall clock of the service, in seconds
    LAST_BG_INGEST, \* main.py:482
    response    \* the answer to the last request

evars == <<history, now, pc, result>>

svars == <<db, users, outbox, queries, request, hist, place, tasks, clock,
           LAST_BG_INGEST, response>>

vars == <<history, now, pc, result, db, users, outbox, queries, request, hist,
          place, tasks, clock, LAST_BG_INGEST, response>>

-----------------------------------------------------------------------------
(* Thresholds and literals of risk_engine.py *)

FLOOD_RAIN_THRESHOLD == 50

CYCLONE_WIND_THRESHOLD == 70

HEATWAVE_TEMP_THRESHOLD == 40

SecondsPerHour == 3600

ConfidenceDecayHours == 6

HeatwavePersistenceHours == 6

RainWindow == 3

-----------------------------------------------------------------------------
(* Bounds of the input space *)

MaxLenClass == 2

MaxLenRain == 4

MaxLenScan == 3

MaxLenHourly == 7

MaxAgeHours == 7

-----------------------------------------------------------------------------
(* Python helpers *)

\* dict.get(key, default)
Get(obj, key, default) ==
    IF key \in DOMAIN obj THEN obj[key] ELSE default

\* max(0.0, x)
Max0(x) == IF x > 0 THEN x ELSE 0

\* round(num / den, digits) as an integer number of 10^-digits, for num >= 0
\* and den > 0: the nearest one; an exact tie goes to the even neighbour (the
\* inputs of this model never produce a tie, where the float representation
\* would decide).
RoundDec(num, den, scale) ==
    LET n == scale * num
        q == n \div den
        r == n % den
    IN  IF 2 * r < den THEN q
        ELSE IF 2 * r > den THEN q + 1
        ELSE IF q % 2 = 0 THEN q ELSE q + 1

\* The marker for "datetime.fromisoformat raised ValueError".
ParseError == [kind |-> "ValueError", at |-> 0]

Instant(t) == [kind |-> "datetime", at |-> t]

parse_ts_captured_first(obj, n) ==
    LET ts == IF "captured_at" \in DOMAIN obj
              THEN obj["captured_at"]
              ELSE Get(obj, "timestamp", [kind |-> "none", at |-> 0])
    IN  IF ts.kind = "none" THEN Instant(n)
        ELSE IF ts.kind = "iso" THEN Instant(ts.at)
        ELSE IF ts.kind = "datetime" THEN ts
        ELSE ParseError

\* parse_ts (risk_engine.py:33-38): 'timestamp' or else 'captured_at'; an
\* absent value is the evaluation time; a string is parsed.
parse_ts(obj, n) ==
    LET ts == IF "timestamp" \in DOMAIN obj
              THEN obj["timestamp"]
              ELSE Get(obj, "captured_at", [kind |-> "none", at |-> 0])
    IN  IF ts.kind = "none" THEN Instant(n)
        ELSE IF ts.kind = "iso" THEN Instant(ts.at)
        ELSE IF ts.kind = "datetime" THEN ts
        ELSE ParseError

-----------------------------------------------------------------------------
(* evaluate_risk, risk_engine.py:8-98 *)

Returned(d) == [status |-> "returned", value |-> d]

Raised(e) == [status |-> "raised", value |-> [error |-> e]]

\* confidence (risk_engine.py:41-42) as returned at line 96:
\* round(max(0.0, 1.0 - time_gap_hrs / 6), 2), in hundredths.
confidence_score_drop_rounding(time_gap) ==
    (100 * Max0(ConfidenceDecayHours * SecondsPerHour - time_gap))
        \div (ConfidenceDecayHours * SecondsPerHour)

confidence_score(time_gap) ==
    RoundDec(Max0(ConfidenceDecayHours * SecondsPerHour - time_gap),
             ConfidenceDecayHours * SecondsPerHour, 100)

\* the test of lines 50 and 54
is_hot(obs) == Get(obs, "temp", 0) > HEATWAVE_TEMP_THRESHOLD

\* the test of line 72
is_cyclone_ge(latest) == Get(latest, "wind_speed", 0) >= CYCLONE_WIND_THRESHOLD

is_cyclone(latest) == Get(latest, "wind_speed", 0) > CYCLONE_WIND_THRESHOLD

\* the test of line 78
is_flood_wrong_key(latest) == Get(latest, "rain", 0) > FLOOD_RAIN_THRESHOLD

is_flood_ge(latest) == Get(latest, "rain_1h", 0) >= FLOOD_RAIN_THRESHOLD

is_flood(latest) == Get(latest, "rain_1h", 0) > FLOOD_RAIN_THRESHOLD

\* the if / elif chain of lines 50, 72, 78, 84: which branch runs
branch_flood_first(latest) ==
    IF is_hot(latest) THEN "heatwave"
    ELSE IF is_flood(latest) THEN "flood"
    ELSE IF is_cyclone(latest) THEN "cyclone"
    ELSE "rain_check"

branch(latest) ==
    IF is_hot(latest) THEN "heatwave"
    ELSE IF is_cyclone(latest) THEN "cyclone"
    ELSE IF is_flood(latest) THEN "flood"
    ELSE "rain_check"

\* the loop of lines 53-57 from index i on, start_time being start: the
\* timestamp of each hot observation replaces start_time, the first
\* observation that is not hot ends the loop.  A timestamp that does not
\* parse ends the call (ParseError).
RECURSIVE scan_no_break(_, _, _, _)
scan_no_break(h, i, start, n) ==
    IF i > Len(h) THEN start
    ELSE IF is_hot(h[i])
         THEN LET t == parse_ts(h[i], n)
              IN  IF t = ParseError THEN ParseError
                  ELSE scan_no_break(h, i + 1, t, n)
         ELSE scan_no_break(h, i + 1, start, n)

RECURSIVE scan_missing_is_hot(_, _, _, _)
scan_missing_is_hot(h, i, start, n) ==
    IF i > Len(h) THEN start
    ELSE IF "temp" \notin DOMAIN h[i] \/ is_hot(h[i])
         THEN LET t == parse_ts(h[i], n)
              IN  IF t = ParseError THEN ParseError
                  ELSE scan_missing_is_hot(h, i + 1, t, n)
         ELSE start

RECURSIVE scan(_, _, _, _)
scan(h, i, start, n) ==
    IF i > Len(h) THEN start
    ELSE IF is_hot(h[i])
         THEN LET t == parse_ts(h[i], n)
              IN  IF t = ParseError THEN ParseError
                  ELSE scan(h, i + 1, t, n)
         ELSE start

\* the test of line 62 on the duration in seconds
is_persistent_gt(duration) ==
    duration > HeatwavePersistenceHours * SecondsPerHour

is_persistent(duration) ==
    duration >= HeatwavePersistenceHours * SecondsPerHour

\* sum([obs.get('rain_1h', 0) for obs in history[:3]]), line 85
RECURSIVE rain_sum(_, _)
rain_sum(h, k) ==
    IF k = 0 THEN 0 ELSE rain_sum(h, k - 1) + Get(h[k], "rain_1h", 0)

rain_total_3h_all(h) == rain_sum(h, Len(h))

rain_total_3h(h) ==
    rain_sum(h, IF Len(h) < RainWindow THEN Len(h) ELSE RainWindow)

\* the dict built at lines 91-98
assessment_gap_as_duration(level, type, reason, duration, time_gap, n) ==
    [risk_level |-> level,
     disaster_type |-> type,
     reason |-> reason,
     persistence_duration_hrs |-> RoundDec(time_gap, SecondsPerHour, 100),
     confidence_score |-> confidence_score(time_gap),
     timestamp |-> n]

assessment(level, type, reason, duration, time_gap, n) ==
    [risk_level |-> level,
     disaster_type |-> type,
     reason |-> reason,
     persistence_duration_hrs |-> RoundDec(duration, SecondsPerHour, 100),
     confidence_score |-> confidence_score(time_gap),
     timestamp |-> n]

\* the dict returned for an empty history, lines 19-25
no_data_assessment_low(n) ==
    [risk_level |-> "LOW",
     disaster_type |-> "NONE",
     reason |-> <<"Weather conditions are within normal safety limits.">>,
     timestamp |-> n,
     confidence |-> 0]

no_data_assessment(n) ==
    [risk_level |-> "UNKNOWN",
     disaster_type |-> "NONE",
     reason |-> <<"No historical data available for assessment.">>,
     timestamp |-> n,
     confidence |-> 0]

evaluate_risk(h, n) ==
    IF h = <<>>
    THEN Returned(no_data_assessment(n))
    ELSE
    LET latest == h[1]
        last_update == parse_ts(latest, n)
    IN  IF last_update = ParseError THEN Raised("ValueError")
        ELSE
        LET time_gap == n - last_update.at
            b == branch(latest)
        IN  IF b = "heatwave"
            THEN LET start_time == scan(h, 1, last_update, n)
                 IN  IF start_time = ParseError THEN Raised("ValueError")
                     ELSE
                     LET duration == Max0(last_update.at - start_time.at)
                     IN  IF is_persistent(duration)
                         THEN Returned(assessment("HIGH", "HEATWAVE",
                                  <<"CRITICAL: Temperature has been above threshold for continuous hours.",
                                    HEATWAVE_TEMP_THRESHOLD,
                                    RoundDec(duration, SecondsPerHour, 10)>>,
                                  duration, time_gap, n))
                         ELSE Returned(assessment("MEDIUM", "HEATWAVE",
                                  <<"WARNING: High temperature detected. Monitoring for persistence.",
                                    latest["temp"]>>,
                                  duration, time_gap, n))
            ELSE IF b = "cyclone"
            THEN Returned(assessment("HIGH", "CYCLONE",
                     <<"ALERT: Extreme wind speeds detected. Immediate danger.",
                       latest["wind_speed"]>>,
                     0, time_gap, n))
            ELSE IF b = "flood"
            THEN Returned(assessment("HIGH", "FLOOD",
                     <<"ALERT: Heavy rainfall indicates immediate flash flood risk.",
                       latest["rain_1h"]>>,
                     0, time_gap, n))
            ELSE IF rain_total_3h(h) > FLOOD_RAIN_THRESHOLD
            THEN Returned(assessment("MEDIUM", "HEAVY_RAIN",
                     <<"Sustained heavy rain over 3h. Risk of flooding is increasing.",
                       rain_total_3h(h)>>,
                     0, time_gap, n))
            ELSE Returned(assessment("LOW", "NONE",
                     <<"Weather conditions are within normal safety limits.">>,
                     0, time_gap, n))

-----------------------------------------------------------------------------
(* The inputs: histories a caller can hand to evaluate_risk *)

Iso(t) == [kind |-> "iso", at |-> t]

Garbage == [kind |-> "garbage", at |-> 0]

AllKeys == {"temp", "wind_speed", "rain_1h", "timestamp", "captured_at"}

Restrict(f, keys) == [k \in keys |-> f[k]]

\* The dicts with a value of each set, less any of the keys of optional and
\* all of the keys of absent.
Dicts(T, W, R, TS, CA, optional, absent) ==
    { Restrict(full, (AllKeys \ absent) \ drop) :
        full \in [temp : T, wind_speed : W, rain_1h : R,
                  timestamp : TS, captured_at : CA],
        drop \in SUBSET optional }

SeqsUpTo(S, n) == UNION { [1..k -> S] : k \in 0..n }

\* Timestamps between three hours ahead of the epoch and MaxAgeHours behind.
TsVals ==
    { Iso(- a * SecondsPerHour) : a \in {-3, 0, 1, 3} \cup (6..MaxAgeHours) }

NowVals == {0, SecondsPerHour}

\* Every combination of the three readings at and just above the
\* thresholds, any of them missing.
ClassHistories ==
    SeqsUpTo(Dicts({40, 41}, {70, 71}, {10, 50, 60}, {Iso(0)}, {Iso(0)},
                   {"temp", "wind_speed", "rain_1h"}, {"captured_at"}),
             MaxLenClass)

\* Rain readings only, temperature and wind at their thresholds.
RainHistories ==
    SeqsUpTo(Dicts({40}, {70}, {10, 50, 60}, {Iso(0)}, {Iso(0)},
                   {"rain_1h"}, {"captured_at"}),
             MaxLenRain)

\* Temperatures and timestamps in any order, wind and rain above their
\* thresholds.
ScanHistories ==
    SeqsUpTo(Dicts({40, 41}, {71}, {60}, TsVals, {Iso(0)},
                   {"timestamp"}, {"captured_at"}),
             MaxLenScan)

\* The dict d with its 'timestamp' set to the ISO text of t.
Stamp(d, t) ==
    [x \in DOMAIN d \cup {"timestamp"} |->
        IF x = "timestamp" THEN Iso(t) ELSE d[x]]

\* Hourly histories: observation i is i - 1 hours older than the first, which
\* is on the hour or half past; any temperature may be missing.
HourlyHistories ==
    { [i \in DOMAIN readings |->
          Stamp(readings[i], first - (i - 1) * SecondsPerHour)] :
        readings \in SeqsUpTo(Dicts({40, 41}, {70}, {10}, {Iso(0)}, {Iso(0)},
                                    {"temp"}, {"timestamp", "captured_at"}),
                              MaxLenHourly),
        first \in {0, - (SecondsPerHour \div 2)} }

\* Both timestamp keys, either of them absent.
KeyHistories ==
    SeqsUpTo(Dicts({41}, {70}, {10},
                   {Iso(0), Iso(- 6 * SecondsPerHour)},
                   {Iso(0), Iso(- 6 * SecondsPerHour)},
                   {"timestamp", "captured_at"}, {}),
             MaxLenClass)

\* Timestamps that are not ISO-8601 texts.
MalformedHistories ==
    SeqsUpTo(Dicts({40, 41}, {70}, {10}, {Garbage, Iso(- SecondsPerHour)},
                   {Iso(0)}, {"timestamp"}, {"captured_at"}),
             MaxLenScan)

WellFormedHistories ==
    ClassHistories \cup RainHistories \cup ScanHistories
        \cup HourlyHistories \cup KeyHistories

-----------------------------------------------------------------------------
(* The state machine: one call of evaluate_risk *)

NoResult == [status |-> "none", value |-> [error |-> "none"]]

NoRequest == [kind |-> "none"]

\* datetime.min.replace(tzinfo=timezone.utc), main.py:482: before every
\* instant of the model
DatetimeMin == -1000000000

\* The service as the process starts: nothing stored, nothing pending.
ServiceIdle ==
    /\ db = TRUE
    /\ users = <<>>
    /\ outbox = <<>>
    /\ queries = 0
    /\ request = NoRequest
    /\ hist = <<>>
    /\ place = <<>>
    /\ tasks = <<>>
    /\ clock = 0
    /\ LAST_BG_INGEST = DatetimeMin
    /\ response = NoRequest

Init ==
    /\ history \in WellFormedHistories
    /\ now \in NowVals
    /\ pc = "call"
    /\ result = NoResult
    /\ ServiceIdle

InitMalformed ==
    /\ history \in MalformedHistories
    /\ now \in NowVals
    /\ pc = "call"
    /\ result = NoResult
    /\ ServiceIdle

\* as if the reads were obs.setdefault(key, 0)
Evaluate_fills_defaults ==
    /\ pc = "call"
    /\ result' = evaluate_risk(history, now)
    /\ pc' = "done"
    /\ history' = [i \in DOMAIN history |->
                     [k \in DOMAIN history[i]
                              \cup {"temp", "wind_speed", "rain_1h"} |->
                         IF k \in DOMAIN history[i] THEN history[i][k] ELSE 0]]
    /\ UNCHANGED now
    /\ UNCHANGED svars

Evaluate ==
    /\ pc = "call"
    /\ result' = evaluate_risk(history, now)
    /\ pc' = "done"
    /\ UNCHANGED <<history, now>>
    /\ UNCHANGED svars

Next == Evaluate

Spec == Init /\ [][Next]_vars

SpecMalformed == InitMalformed /\ [][Next]_vars

-----------------------------------------------------------------------------
(* Properties of evaluate_risk.  The numbers in them are those of the      *)
(* statements (40 degrees, 70 km/h, 50 mm, 6 hours = 21600 seconds), not   *)
(* the definitions of the model.                                           *)

\* C1: for a non-empty history whose latest reading has wind_speed > 70,
\* rain_1h > 50 and temp <= 40 the result is CYCLONE, never FLOOD; and when
\* the latest temp > 40 the result is HEATWAVE whatever the wind and rain
\* values of any observation are.
C1_PriorityOrdering ==
    (pc = "done" /\ history # <<>>) =>
        LET t == Get(history[1], "temp", 0)
            w == Get(history[1], "wind_speed", 0)
            r == Get(history[1], "rain_1h", 0)
        IN  /\ result.status = "returned"
            /\ (w > 70 /\ r > 50 /\ t <= 40)
                   => result.value.disaster_type = "CYCLONE"
            /\ (t > 40) => result.value.disaster_type = "HEATWAVE"

C1_Witness ==
    /\ pc = "done"
    /\ Len(history) = 2
    /\ Get(history[1], "wind_speed", 0) > 70
    /\ Get(history[1], "rain_1h", 0) > 50
    /\ Get(history[1], "temp", 0) <= 40
    /\ Get(history[2], "temp", 0) > 40
    /\ result.value.disaster_type = "CYCLONE"

\* C2: for a non-empty history whose latest temp > 40, the persistence
\* duration is observed_at(history[0]) minus observed_at of the last element
\* of the maximal leading run of observations with temp > 40, floored at 0
\* (the assessment reports it rounded to two decimals); observations behind
\* the first one with temp <= 40 never contribute; the result is
\* HIGH/HEATWAVE if and only if that duration is at least 6 hours, and
\* MEDIUM/HEATWAVE otherwise.
C2_PersistenceScan ==
    (pc = "done" /\ history # <<>> /\ Get(history[1], "temp", 0) > 40) =>
        LET at(o) == IF "timestamp" \in DOMAIN o THEN o["timestamp"].at
                     ELSE IF "captured_at" \in DOMAIN o THEN o["captured_at"].at
                     ELSE now
            run == CHOOSE k \in 1..Len(history) :
                     /\ \A i \in 1..k : Get(history[i], "temp", 0) > 40
                     /\ k = Len(history) \/ Get(history[k + 1], "temp", 0) <= 40
            diff == at(history[1]) - at(history[run])
            dur == IF diff > 0 THEN diff ELSE 0
            reported == result.value.persistence_duration_hrs
        IN  /\ result.status = "returned"
            /\ result.value.disaster_type = "HEATWAVE"
            /\ 2 * (100 * dur - 3600 * reported) <= 3600
            /\ 2 * (3600 * reported - 100 * dur) <= 3600
            /\ result.value.risk_level = (IF dur >= 21600 THEN "HIGH" ELSE "MEDIUM")

\* a hot reading, a cool one, then a hot one seven hours older: MEDIUM
C2_Witness ==
    /\ pc = "done"
    /\ Len(history) = 3
    /\ Get(history[1], "temp", 0) > 40
    /\ Get(history[2], "temp", 0) <= 40
    /\ Get(history[3], "temp", 0) > 40
    /\ "timestamp" \in DOMAIN history[1]
    /\ "timestamp" \in DOMAIN history[3]
    /\ history[1]["timestamp"].at - history[3]["timestamp"].at >= 21600
    /\ result.value.risk_level = "MEDIUM"
    /\ result.value.disaster_type = "HEATWAVE"

\* C3: when the latest temp > 40 and each of the six hourly entries before
\* it (one hour apart, back to six hours before the latest) also has
\* temp > 40, the result is HIGH/HEATWAVE with persistence_duration_hours
\* at least 6.0.
C3_SixHourHeatwave ==
    (/\ pc = "done"
     /\ Len(history) >= 7
     /\ \A i \in 1..7 :
          /\ Get(history[i], "temp", 0) > 40
          /\ "timestamp" \in DOMAIN history[i]
          /\ history[i]["timestamp"].at
                 = history[1]["timestamp"].at - (i - 1) * 3600)
    => /\ result.status = "returned"
       /\ result.value.risk_level = "HIGH"
       /\ result.value.disaster_type = "HEATWAVE"
       /\ result.value.persistence_duration_hrs >= 600

C3_Witness ==
    /\ pc = "done"
    /\ Len(history) = 7
    /\ \A i \in 1..7 :
          /\ Get(history[i], "temp", 0) > 40
          /\ history[i]["timestamp"].at
                 = history[1]["timestamp"].at - (i - 1) * 3600
    /\ result.value.risk_level = "HIGH"
    /\ result.value.persistence_duration_hrs = 600

\* C4: the confidence score returned by evaluate_risk lies in [0.0, 1.0] for
\* every history, also when the latest observation is timestamped later
\* than the evaluation time.
C4_ConfidenceInUnitInterval ==
    (pc = "done" /\ result.status = "returned") =>
        IF history = <<>>
        THEN result.value.confidence >= 0 /\ result.value.confidence <= 100
        ELSE /\ result.value.confidence_score >= 0
             /\ result.value.confidence_score <= 100

\* C5: a history in which observations lack any of the temp, wind_speed and
\* rain_1h fields is assessed, not rejected, and the assessment is the one of
\* the history with each missing field set to 0.
C5_MissingFieldsAreZero ==
    (pc = "done") =>
        LET filled == [i \in DOMAIN history |->
                         [k \in DOMAIN history[i]
                                  \cup {"temp", "wind_speed", "rain_1h"} |->
                             IF k \in DOMAIN history[i]
                             THEN history[i][k] ELSE 0]]
        IN  /\ result.status = "returned"
            /\ result = evaluate_risk(filled, now)

\* an hourly history whose second temperature is missing behind a hot first
C5_Witness ==
    /\ pc = "done"
    /\ Len(history) >= 3
    /\ Get(history[1], "temp", 0) > 40
    /\ "temp" \notin DOMAIN history[2]
    /\ Get(history[3], "temp", 0) > 40
    /\ result.status = "returned"
    /\ result.value.persistence_duration_hrs = 0

\* C6: an observation whose timestamp is absent or unparseable is treated
\* as observed at the evaluation time: no error is raised, and when it is
\* the latest observation the confidence is 1.0.
C6_BadTimestampIsNow ==
    (pc = "done" /\ history # <<>>) =>
        /\ result.status = "returned"
        /\ ("timestamp" \notin DOMAIN history[1]
              \/ history[1]["timestamp"].kind = "garbage")
             => result.value.confidence_score = 100

\* C7 as stated: the confidence is exactly 1.0 at age 0, exactly 0.0 at an
\* age of 6 hours or more, and exactly 1 - age/6 in between.
C7_ExactLinearDecay ==
    (pc = "done" /\ history # <<>> /\ "timestamp" \in DOMAIN history[1]
       /\ now - history[1]["timestamp"].at >= 0) =>
        LET age == now - history[1]["timestamp"].at
            score == result.value.confidence_score
        IN  /\ age = 0 => score = 100
            /\ age >= 21600 => score = 0
            /\ (age > 0 /\ age < 21600)
                  => 21600 * score = 100 * (21600 - age)

\* C7, amended: the confidence is exactly 1.0 at age 0, exactly 0.0 at an
\* age of 6 hours or more, and 1 - age/6 rounded to two decimals in between
\* (3 h gives 0.5, 1 h gives 0.83); it is a function of the age of
\* history[0] alone.
C7_RoundedLinearDecay ==
    (pc = "done" /\ history # <<>> /\ "timestamp" \in DOMAIN history[1]
       /\ now - history[1]["timestamp"].at >= 0) =>
        LET age == now - history[1]["timestamp"].at
            score == result.value.confidence_score
        IN  /\ age = 0 => score = 100
            /\ age >= 21600 => score = 0
            /\ (age > 0 /\ age < 21600)
                  => /\ 2 * (21600 * score - 100 * (21600 - age)) <= 21600
                     /\ 2 * (100 * (21600 - age) - 21600 * score) <= 21600

\* one hour old, with older observations behind it: 0.83
C7_Witness ==
    /\ pc = "done"
    /\ Len(history) >= 2
    /\ "timestamp" \in DOMAIN history[1]
    /\ now - history[1]["timestamp"].at = 3600
    /\ result.value.confidence_score = 83

\* C8: when the latest wind speed > 70 and the latest temp <= 40 the result
\* is HIGH/CYCLONE; a wind speed of exactly 70 is not a cyclone.
C8_Cyclone ==
    (pc = "done" /\ history # <<>> /\ Get(history[1], "temp", 0) <= 40) =>
        /\ Get(history[1], "wind_speed", 0) > 70
             => /\ result.status = "returned"
                /\ result.value.risk_level = "HIGH"
                /\ result.value.disaster_type = "CYCLONE"
        /\ Get(history[1], "wind_speed", 0) = 70
             => result.value.disaster_type # "CYCLONE"

C8_Witness ==
    /\ pc = "done"
    /\ history # <<>>
    /\ Get(history[1], "temp", 0) = 40
    /\ Get(history[1], "wind_speed", 0) = 71
    /\ Get(history[1], "rain_1h", 0) <= 50
    /\ result.value.risk_level = "HIGH"
    /\ result.value.disaster_type = "CYCLONE"

\* C9: when the latest rain rate > 50, the latest temp <= 40 and the latest
\* wind <= 70 the result is HIGH/FLOOD, whatever the older observations are.
C9_Flood ==
    (/\ pc = "done"
     /\ history # <<>>
     /\ Get(history[1], "rain_1h", 0) > 50
     /\ Get(history[1], "temp", 0) <= 40
     /\ Get(history[1], "wind_speed", 0) <= 70)
    => /\ result.status = "returned"
       /\ result.value.risk_level = "HIGH"
       /\ result.value.disaster_type = "FLOOD"

C9_Witness ==
    /\ pc = "done"
    /\ Len(history) = 2
    /\ Get(history[1], "rain_1h", 0) = 60
    /\ Get(history[1], "temp", 0) <= 40
    /\ Get(history[1], "wind_speed", 0) <= 70
    /\ Get(history[2], "wind_speed", 0) > 70
    /\ result.value.risk_level = "HIGH"
    /\ result.value.disaster_type = "FLOOD"

\* C10: when the latest reading triggers none of heatwave, cyclone and
\* flood, the result is MEDIUM/HEAVY_RAIN if and only if the rain_1h of the
\* (up to) three most recent observations sum to more than 50; observations
\* behind the third do not count, and of fewer than three only those
\* present are summed.
C10_HeavyRain ==
    (/\ pc = "done"
     /\ history # <<>>
     /\ Get(history[1], "temp", 0) <= 40
     /\ Get(history[1], "wind_speed", 0) <= 70
     /\ Get(history[1], "rain_1h", 0) <= 50)
    => LET rain(i) == IF i <= Len(history)
                      THEN Get(history[i], "rain_1h", 0) ELSE 0
       IN  /\ result.status = "returned"
           /\ (result.value.risk_level = "MEDIUM"
                 /\ result.value.disaster_type = "HEAVY_RAIN")
              <=> (rain(1) + rain(2) + rain(3) > 50)

\* 10 mm now and 60 mm over the latest three; a fourth observation behind
C10_Witness ==
    /\ pc = "done"
    /\ Len(history) = 4
    /\ Get(history[1], "rain_1h", 0) = 10
    /\ Get(history[2], "rain_1h", 0) = 0
    /\ Get(history[3], "rain_1h", 0) = 50
    /\ Get(history[4], "rain_1h", 0) = 60
    /\ result.value.risk_level = "MEDIUM"
    /\ result.value.disaster_type = "HEAVY_RAIN"

\* C11: for a non-empty history whose latest temp <= 40, wind <= 70,
\* rain <= 50 and whose three most recent rain readings sum to at most 50
\* (values exactly at a threshold included), the result is LOW/NONE with
\* the reason 'Weather conditions are within normal safety limits.'
C11_Default ==
    (/\ pc = "done"
     /\ history # <<>>
     /\ Get(history[1], "temp", 0) <= 40
     /\ Get(history[1], "wind_speed", 0) <= 70
     /\ Get(history[1], "rain_1h", 0) <= 50
     /\ LET rain(i) == IF i <= Len(history)
                       THEN Get(history[i], "rain_1h", 0) ELSE 0
        IN  rain(1) + rain(2) + rain(3) <= 50)
    => /\ result.status = "returned"
       /\ result.value.risk_level = "LOW"
       /\ result.value.disaster_type = "NONE"
       /\ result.value.reason
            = <<"Weather conditions are within normal safety limits.">>

\* every reading exactly at its threshold
C11_Witness ==
    /\ pc = "done"
    /\ Len(history) >= 2
    /\ Get(history[1], "temp", 0) = 40
    /\ Get(history[1], "wind_speed", 0) = 70
    /\ Get(history[1], "rain_1h", 0) = 50
    /\ result.value.risk_level = "LOW"
    /\ result.value.disaster_type = "NONE"

\* C12: for the empty history the result is risk_level UNKNOWN,
\* disaster_type NONE, confidence 0.0 and the reason 'No historical data
\* available for assessment.', and nothing else is computed.
C12_EmptyHistory ==
    (pc = "done" /\ history = <<>>) =>
        /\ result.status = "returned"
        /\ DOMAIN result.value
             = {"risk_level", "disaster_type", "reason", "timestamp", "confidence"}
        /\ result.value.risk_level = "UNKNOWN"
        /\ result.value.disaster_type = "NONE"
        /\ result.value.confidence = 0
        /\ result.value.reason
             = <<"No historical data available for assessment.">>

C12_Witness ==
    /\ pc = "done"
    /\ history = <<>>
    /\ result.status = "returned"
    /\ result.value.risk_level = "UNKNOWN"

\* C13: for a history of a single observation with temp > 40 the result is
\* MEDIUM/HEATWAVE with persistence_duration_hours = 0.
C13_SingleHotObservation ==
    (pc = "done" /\ Len(history) = 1 /\ Get(history[1], "temp", 0) > 40) =>
        /\ result.status = "returned"
        /\ result.value.risk_level = "MEDIUM"
        /\ result.value.disaster_type = "HEATWAVE"
        /\ result.value.persistence_duration_hrs = 0

\* a single reading of 41 degrees, seven hours old or more
C13_Witness ==
    /\ pc = "done"
    /\ Len(history) = 1
    /\ Get(history[1], "temp", 0) = 41
    /\ "timestamp" \in DOMAIN history[1]
    /\ now - history[1]["timestamp"].at >= 25200
    /\ result.value.risk_level = "MEDIUM"
    /\ result.value.persistence_duration_hrs = 0

\* C14: in every assessment evaluate_risk returns whose disaster_type is
\* not HEATWAVE, the persistence duration is 0.
C14_PersistenceZeroUnlessHeatwave ==
    (pc = "done" /\ result.status = "returned"
       /\ result.value.disaster_type # "HEATWAVE") =>
        /\ "persistence_duration_hrs" \in DOMAIN result.value
        /\ result.value.persistence_duration_hrs = 0

\* C16: an observation with both a 'timestamp' and a 'captured_at' is
\* observed at its 'timestamp'; 'captured_at' counts only when 'timestamp'
\* is absent.  Seen in the confidence (the age of the latest observation,
\* rounded as in C7) and in the persistence of a two-reading heatwave.
C16_TimestampPrecedence ==
    (pc = "done" /\ history # <<>>) =>
        LET at(o) == IF "timestamp" \in DOMAIN o THEN o["timestamp"].at
                     ELSE IF "captured_at" \in DOMAIN o THEN o["captured_at"].at
                     ELSE now
            age == now - at(history[1])
            score == result.value.confidence_score
        IN  /\ result.status = "returned"
            /\ age >= 21600 => score = 0
            /\ (age >= 0 /\ age < 21600)
                  => /\ 2 * (21600 * score - 100 * (21600 - age)) <= 21600
                     /\ 2 * (100 * (21600 - age) - 21600 * score) <= 21600
            /\ (/\ Len(history) = 2
                /\ Get(history[1], "temp", 0) > 40
                /\ Get(history[2], "temp", 0) > 40
                /\ at(history[1]) - at(history[2]) >= 21600)
                  => result.value.risk_level = "HIGH"
            /\ (/\ Len(history) = 2
                /\ Get(history[1], "temp", 0) > 40
                /\ at(history[1]) - at(history[2]) < 21600)
                  => result.value.risk_level = "MEDIUM"

\* 'timestamp' now, 'captured_at' six hours ago: full confidence
C16_Witness ==
    /\ pc = "done"
    /\ history # <<>>
    /\ "timestamp" \in DOMAIN history[1]
    /\ "captured_at" \in DOMAIN history[1]
    /\ history[1]["timestamp"].at = now
    /\ history[1]["captured_at"].at = now - 21600
    /\ result.value.confidence_score = 100

\* C17: evaluate_risk never mutates its input: across the call the history
\* sequence and every observation in it stay as they were.
C17_InputUnchanged == [][history' = history]_vars

C17_Witness ==
    /\ pc = "done"
    /\ Len(history) >= 2
    /\ \E i \in DOMAIN history : "temp" \notin DOMAIN history[i]
    /\ result.status = "returned"

-----------------------------------------------------------------------------
(* The notification fan-out of backend/main.py.  A location name is a      *)
(* sequence of characters; "P" and "Q" are upper-case letters, "p" and "q" *)
(* their lower-case forms.                                                 *)

MaxUsers == 2

RECURSIVE lstrip(_)
lstrip(name) ==
    IF name # <<>> /\ name[1] = " " THEN lstrip(Tail(name)) ELSE name

RECURSIVE rstrip(_)
rstrip(name) ==
    IF name # <<>> /\ name[Len(name)] = " "
    THEN rstrip(SubSeq(name, 1, Len(name) - 1))
    ELSE name

\* str.lower() and str.replace(" ", "_") on one character
lower_char(c) == IF c = "P" THEN "p" ELSE IF c = "Q" THEN "q" ELSE c

space_to_underscore(c) == IF c = " " THEN "_" ELSE c

\* normalize_location, main.py:66-68
normalize_location(location) ==
    LET stripped == rstrip(lstrip(location))
    IN  [i \in DOMAIN stripped |->
            space_to_underscore(lower_char(stripped[i]))]

\* Names as a client may type them.
RawNames ==
    { <<"P", "q">>, <<" ", "p", "q">>, <<"p", " ", "q">>, <<"p", "_", "q">>,
      <<"Q">>, <<"q", " ">> }

\* The documents register_user writes (main.py:238-247), less the name, the
\* phone and the dates.
UserDocs ==
    [email : {"a@x", "b@x"},
     location_normalized : { normalize_location(name) : name \in RawNames },
     notify_disasters : BOOLEAN]

UserStores ==
    UNION { [ids -> UserDocs] : ids \in SUBSET (1..MaxUsers) }

\* the test of main.py:489
is_high_or_medium(risk_res) ==
    Get(risk_res, "risk_level", "") \in {"MEDIUM", "HIGH"}

is_high(risk_res) == Get(risk_res, "risk_level", "") = "HIGH"

\* the query of main.py:498-501: the ids of the documents it streams
matching_users(U, normalized_location) ==
    { id \in DOMAIN U :
        /\ U[id].location_normalized = normalized_location
        /\ U[id].notify_disasters = TRUE }

\* the loop of main.py:510-525 over the documents ids, in the order of the
\* ids: one call of notifier.send_high_risk_alert for each
RECURSIVE alert_calls(_, _, _, _)
alert_calls(U, ids, loc_name, risk_res) ==
    IF ids = {} THEN <<>>
    ELSE LET id == CHOOSE x \in ids : \A y \in ids : x <= y
         IN  <<[to_email |-> U[id].email,
                location |-> loc_name,
                disaster_type |-> Get(risk_res, "disaster_type", "")]>>
             \o alert_calls(U, ids \ {id}, loc_name, risk_res)

\* check_and_trigger_alerts, main.py:484-527: the number of queries it makes
\* and the notifier calls it makes (no BackgroundTasks object) or adds as
\* background tasks
check_and_trigger_alerts(loc_name, risk_res, dbv, U) ==
    IF is_high(risk_res) /\ dbv
    THEN [queried |-> 1,
          calls |-> alert_calls(U, matching_users(U, normalize_location(loc_name)),
                                loc_name, risk_res)]
    ELSE [queried |-> 0, calls |-> <<>>]

\* the notifier calls made at the time t, as entries of the outbox and as
\* background tasks
Made(calls, t) == [i \in DOMAIN calls |-> [call |-> calls[i], at |-> t]]

AlertTasks(calls) ==
    [i \in DOMAIN calls |-> [op |-> "alert", call |-> calls[i]]]

\* One history for each risk level.
AlertHistories ==
    { <<>>,
      <<[temp |-> 30, wind_speed |-> 10, rain_1h |-> 0, timestamp |-> Iso(0)]>>,
      <<[temp |-> 41, wind_speed |-> 10, rain_1h |-> 0, timestamp |-> Iso(0)]>>,
      <<[temp |-> 30, wind_speed |-> 71, rain_1h |-> 0, timestamp |-> Iso(0)]>>,
      <<[temp |-> 30, wind_speed |-> 10, rain_1h |-> 60, timestamp |-> Iso(0)]>> }

InitAlerts ==
    /\ history \in AlertHistories
    /\ now = 0
    /\ pc = "call"
    /\ result = NoResult
    /\ db \in BOOLEAN
    /\ users \in UserStores
    /\ outbox = <<>>
    /\ queries = 0
    /\ request = NoRequest
    /\ hist = <<>>
    /\ place = <<>>
    /\ tasks = <<>>
    /\ clock = 0
    /\ LAST_BG_INGEST = DatetimeMin
    /\ response = NoRequest

\* A call check_and_trigger_alerts(loc_name, risk_res, background_tasks) with
\* the assessment just computed.
CheckAndTriggerAlerts ==
    /\ pc = "done"
    /\ result.status = "returned"
    /\ \E loc_name \in RawNames, background \in BOOLEAN :
         LET done == check_and_trigger_alerts(loc_name, result.value, db,
                                              users)
         IN  /\ request' = [kind |-> "alerts", loc_name |-> loc_name,
                            background |-> background]
             /\ IF background
                THEN /\ tasks' = tasks \o AlertTasks(done.calls)
                     /\ outbox' = outbox
                ELSE /\ outbox' = outbox \o Made(done.calls, clock)
                     /\ tasks' = tasks
             /\ queries' = queries + done.queried
    /\ pc' = "alerted"
    /\ UNCHANGED <<history, now, result, db, users, hist, place, clock,
                   LAST_BG_INGEST, response>>

NextAlerts == Evaluate \/ CheckAndTriggerAlerts

SpecAlerts == InitAlerts /\ [][NextAlerts]_vars

-----------------------------------------------------------------------------
(* The history store of backend/main.py.  place maps a location key to its *)
(* document in the collection places, hist maps it to its sub-collection   *)
(* history: a function from hour ids to records.  An hour id is the number *)
(* of the hour (strftime("%Y%m%d%H") names the same hour).  Fields that    *)
(* the evaluator never reads (humidity, clouds, location) are left out of  *)
(* the readings.                                                           *)

MaxTicks == 1

MaxRecords == 1

RetentionHours == 24

\* d[key] = value, and {**old, **new}
Put(d, key, value) ==
    [k \in DOMAIN d \cup {key} |-> IF k = key THEN value ELSE d[k]]

Merge(old, new) ==
    [k \in DOMAIN old \cup DOMAIN new |->
        IF k \in DOMAIN new THEN new[k] ELSE old[k]]

\* the content of a document, empty when it does not exist
Doc(C, id) == IF id \in DOMAIN C THEN C[id] ELSE <<>>

\* the sub-collections H with the documents docs as that of location; a
\* sub-collection without documents does not exist
Collection(H, location, docs) ==
    IF DOMAIN docs = {}
    THEN [l \in DOMAIN H \ {location} |-> H[l]]
    ELSE Put(H, location, docs)

hour_id(timestamp) == timestamp \div SecondsPerHour

cleanup_cutoff_25h(timestamp) ==
    timestamp - (RetentionHours + 1) * SecondsPerHour

cleanup_cutoff(timestamp) == timestamp - RetentionHours * SecondsPerHour

\* the update of main.py:83-102
update_payload(location, weather_data, coordinates, risk_result, timestamp) ==
    LET base == [location |-> location,
                 weather |-> weather_data,
                 updated_at |-> Instant(timestamp)]
        located == IF coordinates # <<>>
                   THEN Put(base, "coordinates", coordinates)
                   ELSE base
    IN  IF DOMAIN risk_result # {}
        THEN Put(located, "risk_cache",
                 [risk_level |-> Get(risk_result, "risk_level", "None"),
                  calculated_at |-> Instant(timestamp),
                  conditions_snapshot |->
                      [temp |-> Get(weather_data, "temp", 0),
                       rain |-> Get(weather_data, "rain_1h", 0),
                       wind |-> Get(weather_data, "wind_speed", 0)]])
        ELSE located

\* The outcomes of a save that are drawn: none of the Firestore operations
\* raises, or the write of the history record does, or the cleanup does.
SaveOutcomes == {"ok", "history_set_fails", "cleanup_fails"}

\* save_weather_data, main.py:71-132, at the time timestamp.  outcome names
\* the Firestore operation that raises, if one does.  coordinates is a pair
\* or empty (None, None); risk_result is a dict or empty (None).

save_weather_data(dbv, P, H, location, weather_data, coordinates, risk_result, timestamp, outcome) ==
    IF ~dbv \/ outcome = "place_set_fails"
    THEN [ok |-> FALSE, place |-> P, hist |-> H]
    ELSE LET stamped == Put(weather_data, "captured_at", Iso(timestamp))
             P1 == Put(P, location,
                       Merge(Doc(P, location),
                             update_payload(location, stamped, coordinates,
                                            risk_result, timestamp)))
             hour == hour_id(timestamp)
             history_data == Put(Put(stamped, "timestamp", Instant(timestamp)),
                                 "hour_id", hour)
             before == Doc(H, location)
             written == Put(before, hour, Merge(Doc(before, hour), history_data))
             kept == { h \in DOMAIN written :
                         ~ (written[h].timestamp.at < cleanup_cutoff(timestamp)) }
         IN  IF outcome = "history_set_fails"
             THEN [ok |-> FALSE, place |-> P1, hist |-> H]
             ELSE IF outcome = "cleanup_fails"
             THEN [ok |-> FALSE, place |-> P1,
                   hist |-> Collection(H, location, written)]
             ELSE [ok |-> TRUE, place |-> P1,
                   hist |-> Collection(H, location,
                                       [h \in kept |-> written[h]])]

\* list[i] if i < len(list) else 0, main.py:160-164 (i counts from 1 here)
item_or_zero(list, i) == IF i <= Len(list) THEN list[i] ELSE 0

\* the loop of main.py:154-175 from index i on, over the records docs of
\* one location
RECURSIVE populate_hours(_, _, _)
populate_hours(docs, hourly_data, i) ==
    LET times == Get(hourly_data, "time", <<>>)
    IN  IF i > Len(times) THEN docs
        ELSE IF times[i].kind # "iso"
        THEN populate_hours(docs, hourly_data, i + 1)
        ELSE LET timestamp == times[i].at
                 hour == hour_id(timestamp)
                 history_data ==
                     [temp |-> item_or_zero(Get(hourly_data, "temperature_2m", <<>>), i),
                      rain_1h |-> item_or_zero(Get(hourly_data, "rain", <<>>), i),
                      wind_speed |-> item_or_zero(Get(hourly_data, "wind_speed_10m", <<>>), i),
                      timestamp |-> Instant(timestamp),
                      hour_id |-> hour]
             IN  populate_hours(Put(docs, hour,
                                    Merge(Doc(docs, hour), history_data)),
                                hourly_data, i + 1)

\* populate_historical_data, main.py:135-181
populate_historical_data(dbv, H, location, hourly_data) ==
    IF ~dbv
    THEN [ok |-> FALSE, hist |-> H]
    ELSE [ok |-> TRUE,
          hist |-> Collection(H, location,
                              populate_hours(Doc(H, location), hourly_data, 1))]

\* The keys of the locations in use.
Places == { <<"p", "q">>, <<"q">> }

Readings == { [temp |-> 41, wind_speed |-> 10, rain_1h |-> 0] }

\* Hourly series around the time t: hours on the hour, ahead of t and up to
\* 25 hours behind it, and a time that does not parse.
PopulateTimes(t) ==
    { Iso((hour_id(t) + off) * SecondsPerHour) :
        off \in {0 - (RetentionHours + 1), 0 - RetentionHours, -1, 2} }
    \cup {Garbage}

\* one hour, or a time that does not parse followed by an hour for which
\* the series has no temperature
HourlyInputs(t) ==
    { [time |-> times, temperature_2m |-> <<41>>] :
        times \in { <<x>> : x \in PopulateTimes(t) }
                  \cup { <<Garbage, Iso((hour_id(t) + 2) * SecondsPerHour)>> } }

records_stored(H) ==
    LET RECURSIVE count(_)
        count(locs) ==
            IF locs = {} THEN 0
            ELSE LET l == CHOOSE x \in locs : TRUE
                 IN  Cardinality(DOMAIN H[l]) + count(locs \ {l})
    IN  count(DOMAIN H)

InitStore ==
    /\ history = <<>>
    /\ now = 0
    /\ pc = "idle"
    /\ result = NoResult
    /\ db \in BOOLEAN
    /\ users = <<>>
    /\ outbox = <<>>
    /\ queries = 0
    /\ request = NoRequest
    /\ hist = <<>>
    /\ place = <<>>
    /\ tasks = <<>>
    /\ clock = 0
    /\ LAST_BG_INGEST = DatetimeMin
    /\ response = NoRequest

\* A call of save_weather_data at the time of the clock.
Save ==
    /\ \E location \in Places, weather_data \in Readings,
          coordinates \in {<<17, 78>>}, outcome \in SaveOutcomes :
         LET saved == save_weather_data(db, place, hist, location, weather_data,
                                        coordinates, <<>>, clock, outcome)
         IN  /\ place' = saved.place
             /\ hist' = saved.hist
             /\ request' = [kind |-> "save", location |-> location,
                            at |-> clock]
             /\ response' = [kind |-> "saved", ok |-> saved.ok]
    /\ UNCHANGED <<evars, db, users, outbox, queries, tasks, clock,
                   LAST_BG_INGEST>>

\* A call of populate_historical_data.
Populate ==
    /\ records_stored(hist) < MaxRecords
    /\ \E location \in Places, hourly_data \in HourlyInputs(clock) :
         LET populated == populate_historical_data(db, hist, location,
                                                   hourly_data)
         IN  /\ hist' = populated.hist
             /\ request' = [kind |-> "populate", location |-> location,
                            at |-> clock]
             /\ response' = [kind |-> "populated", ok |-> populated.ok]
    /\ UNCHANGED <<evars, db, users, outbox, queries, place, tasks, clock,
                   LAST_BG_INGEST>>

\* Time passes: an hour more than the records are kept.
Tick ==
    /\ clock < MaxTicks * (RetentionHours + 1) * SecondsPerHour
    /\ clock' = clock + (RetentionHours + 1) * SecondsPerHour
    /\ UNCHANGED <<evars, db, users, outbox, queries, request, hist, place,
                   tasks, LAST_BG_INGEST, response>>

NextStore == Save \/ Populate \/ Tick

SpecStore == InitStore /\ [][NextStore]_vars

\* C19: right after a successful save_weather_data for a location at the
\* time T, no record of the history of that location has a timestamp
\* earlier than T minus 24 hours, whatever saves and populate calls came
\* before.
C19_RollingRetention ==
    (request.kind = "save" /\ response.ok) =>
        \A h \in DOMAIN hist[request.location] :
            hist[request.location][h].timestamp.at >= request.at - 24 * 3600

\* a successful save 25 hours after the first: the location keeps the
\* populated record of hour 2 and the new one, its record of hour 0 is
\* gone, and the other location still holds a record that old
C19_Witness ==
    /\ request.kind = "save"
    /\ response.ok
    /\ request.at = 25 * 3600
    /\ DOMAIN hist[request.location] = {2, 25}
    /\ "captured_at" \notin DOMAIN hist[request.location][2]
    /\ \E other \in DOMAIN hist :
         /\ other # request.location
         /\ 0 \in DOMAIN hist[other]
         /\ hist[other][0].timestamp.at < request.at - 24 * 3600

-----------------------------------------------------------------------------
(* GET /weather of backend/main.py and the background tasks it adds.  The  *)
(* tasks of all requests wait in one queue and run one at a time, after    *)
(* the response of their request.                                          *)

MaxQueries == 2

HistoryHours == 24

SimulationSnapshots == 7

IngestCooldown == 900

MONITORED_PLACES == <<>>

\* the documents hours of docs, newest first, with the timestamp as an ISO
\* string (main.py:196-205)
RECURSIVE newest_first(_, _)
newest_first(docs, hours) ==
    IF hours = {} THEN <<>>
    ELSE LET h == CHOOSE x \in hours :
                    \A y \in hours :
                        docs[x].timestamp.at >= docs[y].timestamp.at
         IN  <<Put(docs[h], "timestamp", Iso(docs[h].timestamp.at))>>
             \o newest_first(docs, hours \ {h})

\* get_weather_history, main.py:184-209, at the time t
get_weather_history(dbv, H, location, hours, t) ==
    IF ~dbv THEN <<>>
    ELSE LET docs == Doc(H, location)
             cutoff == t - hours * SecondsPerHour
         IN  newest_first(docs, { h \in DOMAIN docs :
                                    docs[h].timestamp.at >= cutoff })

\* the mock history of main.py:553-557
mock_history_six(weather_data, ts) ==
    [i \in 1..(SimulationSnapshots - 1) |->
        LET hist_ts == ts - (i - 1) * SecondsPerHour
        IN  Put(Put(weather_data, "timestamp", Iso(hist_ts)),
                "hour_id", hour_id(hist_ts))]

mock_history(weather_data, ts) ==
    [i \in 1..SimulationSnapshots |->
        LET hist_ts == ts - (i - 1) * SecondsPerHour
        IN  Put(Put(weather_data, "timestamp", Iso(hist_ts)),
                "hour_id", hour_id(hist_ts))]

\* the de-duplication of main.py:657-666
with_current_snapshot(history_read, weather_data, t) ==
    LET current_hour_id == hour_id(t)
        has_current_hour ==
            \E i \in DOMAIN history_read :
                /\ "hour_id" \in DOMAIN history_read[i]
                /\ history_read[i].hour_id = current_hour_id
    IN  IF DOMAIN weather_data # {} /\ ~ has_current_hour
        THEN <<Put(Put(weather_data, "timestamp", Iso(t)),
                   "hour_id", current_hour_id)>> \o history_read
        ELSE history_read

\* what the client gets, and the api_error the handler held (main.py:575,
\* 633): "None" when nothing had failed
Answer(status, source, detail, api_error) ==
    [kind |-> "response", status |-> status, source |-> source,
     detail |-> detail, api_error |-> api_error]

\* a request that ends in an HTTPException: nothing is evaluated, no task
\* is run
refused(status, detail, api_error, last) ==
    [response |-> Answer(status, "none", detail, api_error),
     evaluated |-> FALSE,
     history |-> <<>>, result |-> NoResult, added |-> <<>>, queried |-> 0,
     LAST_BG_INGEST |-> last]

\* the test of main.py:677
refresh_due_ge(source, t, last) ==
    source = "live_api" /\ t - last >= IngestCooldown

refresh_due(source, t, last) ==
    source = "live_api" /\ t - last > IngestCooldown

\* main.py:559-571 and 668-692: the assessment of the history, the alerts
\* and the cooldown of the background refresh.  added are the tasks the
\* request has added before.
assess_and_answer(source, location, handed, added, api_error, dbv, U, t, last) ==
    LET risk_result == evaluate_risk(handed, t)
    IN  IF risk_result.status = "raised"
        THEN [response |-> Answer(500, source, risk_result.value.error,
                                  api_error),
              evaluated |-> TRUE, history |-> handed, result |-> risk_result,
              added |-> <<>>, queried |-> 0, LAST_BG_INGEST |-> last]
        ELSE LET alerts == check_and_trigger_alerts(location,
                                                    risk_result.value, dbv, U)
                 refresh == refresh_due(source, t, last)
             IN  [response |-> Answer(200, source, "", api_error),
                  evaluated |-> TRUE, history |-> handed,
                  result |-> risk_result,
                  added |-> added \o AlertTasks(alerts.calls)
                            \o (IF refresh THEN <<[op |-> "ingest"]>>
                                ELSE <<>>),
                  queried |-> alerts.queried,
                  LAST_BG_INGEST |-> IF refresh THEN t ELSE last]

\* get_weather_risk, main.py:529-692, at the time t.  simulation.scenario
\* is "None" without the parameter and simulation.readings is what the mock
\* file of the scenario holds (empty: no such file); geo is the outcome of
\* the geocoder; api.current holds the reading of the weather API (empty:
\* the call fails).
get_weather_risk(original_name, simulation, geo, api, dbv, P, H, U, t, last) ==
    LET location == normalize_location(original_name)
    IN  IF simulation.scenario # "None"
        THEN IF simulation.readings = <<>>
             THEN refused(404, "Simulation scenario not found", "None", last)
             ELSE assess_and_answer(
                      "simulation", location,
                      mock_history(Put(simulation.readings[1], "captured_at",
                                       Iso(t)), t),
                      <<>>, "None", dbv, U, t, last)
        ELSE LET known == dbv /\ location \in DOMAIN P
                 cached == IF known THEN Get(P[location], "coordinates", <<>>)
                           ELSE <<>>
                 coordinates == IF cached # <<>> THEN cached
                                ELSE IF geo = "found" THEN <<17, 78>>
                                ELSE <<>>
                 fetched == coordinates # <<>> /\ api.current # <<>>
                 api_error == IF coordinates # <<>> THEN "weather API failed"
                              ELSE IF geo = "none"
                              THEN "404: Location not found"
                              ELSE "geocoder failed"
             IN  IF fetched
                 THEN assess_and_answer(
                          "live_api", location,
                          with_current_snapshot(
                              get_weather_history(dbv, H, location,
                                                  HistoryHours, t),
                              api.current[1], t),
                          <<[op |-> "save", location |-> location,
                             weather_data |-> api.current[1],
                             coordinates |-> coordinates]>>,
                          "None", dbv, U, t, last)
                 ELSE IF known
                 THEN assess_and_answer(
                          "verified_cache", location,
                          with_current_snapshot(
                              get_weather_history(dbv, H, location,
                                                  HistoryHours, t),
                              Get(P[location], "weather", <<>>), t),
                          <<>>, api_error, dbv, U, t, last)
                 ELSE refused(503, "Weather service unavailable", api_error,
                              last)

RequestNames == { <<" ", "P", "q">>, <<"p", "q">> }

Simulations ==
    { [scenario |-> "None", readings |-> <<>>],
      [scenario |-> "heatwave",
       readings |-> <<[temp |-> 41, wind_speed |-> 10, rain_1h |-> 0]>>],
      [scenario |-> "missing", readings |-> <<>>] }

GeocoderReplies == {"found", "none", "error"}

ApiReplies ==
    { [current |-> <<>>],
      [current |-> <<[temp |-> 30, wind_speed |-> 10, rain_1h |-> 0]>>],
      [current |-> <<[temp |-> 30, wind_speed |-> 71, rain_1h |-> 0]>>] }

\* One subscriber of "pq", one user of "pq" who opted out.
Subscribers ==
    <<[email |-> "a@x", location_normalized |-> <<"p", "q">>,
       notify_disasters |-> TRUE],
      [email |-> "b@x", location_normalized |-> <<"p", "q">>,
       notify_disasters |-> FALSE]>>

\* The last refresh scheduled before the first request: none, or one 900
\* or 901 seconds before.
EarlierIngests == {DatetimeMin, 0 - IngestCooldown, 0 - IngestCooldown - 1}

InitWeather ==
    /\ history = <<>>
    /\ now = 0
    /\ pc = "idle"
    /\ result = NoResult
    /\ db \in BOOLEAN
    /\ users = Subscribers
    /\ outbox = <<>>
    /\ queries = 0
    /\ request = NoRequest
    /\ hist = <<>>
    /\ place = <<>>
    /\ tasks = <<>>
    /\ clock = 0
    /\ LAST_BG_INGEST \in EarlierIngests
    /\ response = NoRequest

\* A GET /weather request, answered at the time of the clock.  Requests are
\* taken one at a time, each with the tasks it added.
GetWeather ==
    /\ tasks = <<>>
    /\ queries < MaxQueries
    /\ \E original_name \in RequestNames, simulation \in Simulations,
          geo \in GeocoderReplies, api \in ApiReplies :
         \E served \in {get_weather_risk(original_name, simulation, geo, api,
                                          db, place, hist, users, clock,
                                          LAST_BG_INGEST)} :
             /\ request' = [kind |-> "weather", location |-> original_name,
                            at |-> clock]
             /\ response' = served.response
             /\ tasks' = tasks \o served.added
             /\ queries' = queries + served.queried
             /\ LAST_BG_INGEST' = served.LAST_BG_INGEST
             /\ IF served.evaluated
                THEN /\ history' = served.history
                     /\ now' = clock
                     /\ result' = served.result
                ELSE UNCHANGED <<history, now, result>>
    /\ pc' = "served"
    /\ UNCHANGED <<db, users, outbox, hist, place, clock>>

\* The oldest background task runs: save_weather_data, the notifier, or
\* ingest_weather, which returns at main.py:714-716 because no place is
\* monitored.
RunTask ==
    /\ tasks # <<>>
    /\ tasks' = Tail(tasks)
    /\ LET task == Head(tasks)
       IN  CASE task.op = "save" ->
                  \E outcome \in SaveOutcomes :
                      \E saved \in {save_weather_data(
                                        db, place, hist, task.location,
                                        task.weather_data, task.coordinates,
                                        <<>>, clock, outcome)} :
                          /\ place' = saved.place
                          /\ hist' = saved.hist
                          /\ outbox' = outbox
             [] task.op = "alert" ->
                  /\ outbox' = outbox \o Made(<<task.call>>, clock)
                  /\ UNCHANGED <<place, hist>>
             [] task.op = "ingest" ->
                  /\ MONITORED_PLACES = <<>>
                  /\ UNCHANGED <<place, hist, outbox>>
    /\ UNCHANGED <<evars, db, users, queries, request, clock, LAST_BG_INGEST,
                   response>>

NextWeather == GetWeather \/ RunTask \/ Tick

SpecWeather == InitWeather /\ [][NextWeather]_vars

\* C20: a subscriber of a location is notified at most once per cooldown
\* window (900 seconds) by GET /weather requests for that location that
\* assess HIGH: two notifications of one address for one location are more
\* than a window apart.
C20_OneAlertPerWindow ==
    \A i, j \in DOMAIN outbox :
        ( /\ i < j
          /\ outbox[i].call.to_email = outbox[j].call.to_email
          /\ outbox[i].call.location = outbox[j].call.location )
        => outbox[j].at - outbox[i].at > 900

\* C21: a step adds an ingest_weather task only if it answers a live_api
\* request more than 900 seconds after the last refresh that /weather
\* scheduled; LAST_BG_INGEST never decreases, and it changes (to the time of
\* the request) exactly in the steps that add such a task.
C21_RefreshCooldown ==
    [][LET ingests(q) == Cardinality({ i \in DOMAIN q : q[i].op = "ingest" })
           scheduled == ingests(tasks') > ingests(tasks)
       IN  /\ LAST_BG_INGEST' >= LAST_BG_INGEST
           /\ scheduled <=> LAST_BG_INGEST' # LAST_BG_INGEST
           /\ scheduled => /\ response'.source = "live_api"
                           /\ clock - LAST_BG_INGEST > 900
                           /\ LAST_BG_INGEST' = clock]_vars

\* a live request 900 seconds after the last refresh: answered, and no
\* refresh scheduled
C21_Witness ==
    /\ pc = "served"
    /\ response.source = "live_api"
    /\ request.at - LAST_BG_INGEST = 900
    /\ \A i \in DOMAIN tasks : tasks[i].op # "ingest"
    /\ tasks # <<>>

\* C22: a request without simulation whose location has no cached
\* coordinates and for which the geocoder finds no result is answered with
\* HTTP 404 (Location not found).
C22_UnknownLocationIs404 ==
    (pc = "served" /\ response.api_error = "404: Location not found")
        => response.status = 404

\* C23: when the live fetch succeeds, the history handed to the evaluator
\* has the reading just fetched (the one the request hands to the save task)
\* as its element 0, whatever the store holds for the current hour.
C23_FreshReadingIsCurrent ==
    ( /\ pc = "served"
      /\ response.source = "live_api"
      /\ tasks # <<>>
      /\ tasks[1].op = "save" )
    => /\ history # <<>>
       /\ \A k \in {"temp", "wind_speed", "rain_1h"} :
            history[1][k] = tasks[1].weather_data[k]

\* C27: a GET /weather request with a simulation hands the evaluator 7
\* snapshots of the simulated reading, one hour apart from the time of the
\* request back to 6 hours before; a simulated reading with temp > 40 is
\* assessed HIGH/HEATWAVE with a persistence of 6.0 hours, and every request
\* assessed HIGH, simulated or live, adds one alert task for each subscriber
\* of the normalized location (none when the store is down).
C27_SimulatedHeatwave ==
    [][( /\ tasks = <<>>
         /\ clock' = clock
         /\ pc' = "served"
         /\ response'.status = 200 )
       => LET target == normalize_location(request'.location)
              subscribed == { id \in DOMAIN users :
                                /\ users[id].location_normalized = target
                                /\ users[id].notify_disasters }
              alerts == SelectSeq(tasks', LAMBDA task : task.op = "alert")
          IN  /\ response'.source = "simulation"
                 => /\ Len(history') = 7
                    /\ \A i \in 1..7 :
                         /\ history'[i].timestamp = Iso(clock - (i - 1) * 3600)
                         /\ history'[i].temp = history'[1].temp
                         /\ history'[i].wind_speed = history'[1].wind_speed
                         /\ history'[i].rain_1h = history'[1].rain_1h
                    /\ history'[1].temp > 40
                         => /\ result'.status = "returned"
                            /\ result'.value.risk_level = "HIGH"
                            /\ result'.value.disaster_type = "HEATWAVE"
                            /\ result'.value.persistence_duration_hrs = 600
                    /\ \A i \in DOMAIN tasks' : tasks'[i].op = "alert"
              /\ result'.value.risk_level = "HIGH"
                 => /\ Len(alerts) = IF db THEN Cardinality(subscribed) ELSE 0
                    /\ \A i \in DOMAIN alerts :
                         /\ alerts[i].call.location = target
                         /\ alerts[i].call.disaster_type
                              = result'.value.disaster_type
                         /\ \E id \in subscribed :
                              users[id].email = alerts[i].call.to_email
              /\ result'.value.risk_level # "HIGH" => alerts = <<>>]_vars

\* a simulated heatwave for a place with a subscriber: the alert task for
\* the subscriber is pending
C27_Witness ==
    /\ pc = "served"
    /\ response.status = 200
    /\ response.source = "simulation"
    /\ Len(history) = 7
    /\ history[1].temp > 40
    /\ result.value.risk_level = "HIGH"
    /\ result.value.persistence_duration_hrs = 600
    /\ tasks = <<[op |-> "alert",
                  call |-> [to_email |-> "a@x", location |-> <<"p", "q">>,
                            disaster_type |-> "HEATWAVE"]]>>

\* GET /weather over a store that populate_historical_data has filled.
NextHistory == GetWeather \/ RunTask \/ Populate \/ Tick

SpecHistory == InitWeather /\ [][NextHistory]_vars

\* C24: the history handed to evaluate_risk by GET /weather is ordered
\* newest first by timestamp, with the snapshot of the current hour at
\* index 0 when it was inserted, after any saves and any calls of
\* populate_historical_data.
C24_NewestFirst ==
    (pc = "served") =>
        \A i \in 1..(Len(history) - 1) :
            history[i].timestamp.at >= history[i + 1].timestamp.at

-----------------------------------------------------------------------------
(* ingest_weather of backend/main.py and the reuse of the cached risk.     *)

\* the test of main.py:386
is_safe_le(temp, rain, wind) ==
    15 <= temp /\ temp <= 35 /\ rain <= 10 /\ wind < 40

is_safe(temp, rain, wind) ==
    15 <= temp /\ temp <= 35 /\ rain < 10 /\ wind < 40

Abs(x) == IF x < 0 THEN 0 - x ELSE x

\* should_recalculate_risk, main.py:362-396, at the time t.  cached_risk is
\* a dict or empty (None).  datetime.fromisoformat raises for anything that
\* is not an ISO string, also for a datetime, and the bare except of 372
\* answers True.
should_recalculate_risk(current_weather, cached_risk, t) ==
    IF DOMAIN cached_risk = {} THEN TRUE
    ELSE LET calculated_at == Get(cached_risk, "calculated_at", Garbage)
         IN  IF calculated_at.kind # "iso" THEN TRUE
             ELSE IF t - calculated_at.at > SecondsPerHour THEN TRUE
             ELSE LET cached_conditions ==
                          Get(cached_risk, "conditions_snapshot", <<>>)
                      temp == Get(current_weather, "temp", 25)
                      rain == Get(current_weather, "rain_1h", 0)
                      wind == Get(current_weather, "wind_speed", 0)
                      cached_temp == Get(cached_conditions, "temp", temp)
                      cached_rain == Get(cached_conditions, "rain", rain)
                      cached_wind == Get(cached_conditions, "wind", wind)
                      temp_stable == Abs(temp - cached_temp) < 5
                      rain_stable == Abs(rain - cached_rain) < 5
                      wind_stable == Abs(wind - cached_wind) < 10
                  IN  ~ ( is_safe(temp, rain, wind) /\ temp_stable
                          /\ rain_stable /\ wind_stable )

QuickHours == 6

\* what one run of ingest_weather has done so far: the store, the notifier
\* calls made, the queries made, and for the last place processed its
\* reading, whether the risk was recalculated, the history last handed to
\* the evaluator and the risk it ended with
Ingested(P, H) ==
    [place |-> P, hist |-> H, sent |-> <<>>, queried |-> 0,
     processed |-> FALSE, recalculated |-> FALSE, weather |-> <<>>,
     handed |-> <<>>, risk_result |-> NoResult]

\* the body of the loop of main.py:727-815 for the place name at the time t.
\* reply.geo is the outcome of the geocoder, reply.current the reading of
\* the weather API (empty: the call fails), reply.outcome that of the save.
ingest_place(name, reply, dbv, U, t, acc) ==
    IF reply.geo # "found" \/ reply.current = <<>>
    THEN acc
    ELSE
    LET normalized_name == normalize_location(name)
        weather == reply.current[1]
        known == dbv /\ normalized_name \in DOMAIN acc.place
        cached_risk == IF known
                       THEN Get(acc.place[normalized_name], "risk_cache", <<>>)
                       ELSE <<>>
        recalculate == should_recalculate_risk(weather, cached_risk, t)
        quick_history ==
            with_current_snapshot(
                get_weather_history(dbv, acc.hist, normalized_name,
                                    QuickHours, t), weather, t)
        quick_risk == evaluate_risk(quick_history, t)
        concerning ==
            /\ quick_risk.status = "returned"
            /\ Get(quick_risk.value, "risk_level", "") \in {"MEDIUM", "HIGH"}
        full_history ==
            with_current_snapshot(
                get_weather_history(dbv, acc.hist, normalized_name,
                                    HistoryHours, t), weather, t)
        handed == IF ~ recalculate THEN <<>>
                  ELSE IF concerning THEN full_history ELSE quick_history
        risk_result ==
            IF ~ recalculate
            THEN Returned([risk_level |-> Get(cached_risk, "risk_level", "None"),
                           risk_score |-> "None"])
            ELSE IF concerning THEN evaluate_risk(full_history, t)
            ELSE quick_risk
    IN  IF risk_result.status = "raised"
        THEN acc
        ELSE LET saved == save_weather_data(dbv, acc.place, acc.hist,
                                            normalized_name, weather,
                                            <<17, 78>>, risk_result.value, t,
                                            reply.outcome)
                 alerts == check_and_trigger_alerts(name, risk_result.value,
                                                    dbv, U)
             IN  [place |-> saved.place, hist |-> saved.hist,
                  sent |-> acc.sent \o Made(alerts.calls, t),
                  queried |-> acc.queried + alerts.queried,
                  processed |-> TRUE, recalculated |-> recalculate,
                  weather |-> weather, handed |-> handed,
                  risk_result |-> risk_result]

\* the loop of main.py:727-815 from the place i on
RECURSIVE ingest_places(_, _, _, _, _, _, _)
ingest_places(places, replies, i, dbv, U, t, acc) ==
    IF i > Len(places) THEN acc
    ELSE ingest_places(places, replies, i + 1, dbv, U, t,
                       ingest_place(places[i], replies[i], dbv, U, t, acc))

\* ingest_weather, main.py:708-818, with places as MONITORED_PLACES
ingest_weather(places, replies, dbv, P, H, U, t) ==
    ingest_places(places, replies, 1, dbv, U, t, Ingested(P, H))

\* A deployment that monitors one place.
ConfiguredPlaces == << <<"P", "q">> >>

IngestReadings ==
    { [temp |-> 30, wind_speed |-> 10, rain_1h |-> 0],
      [temp |-> 30, wind_speed |-> 10, rain_1h |-> 30],
      [temp |-> 41, wind_speed |-> 10, rain_1h |-> 0] }

IngestReplies ==
    { [geo |-> "found", current |-> <<r>>, outcome |-> o] :
        r \in IngestReadings, o \in {"ok", "cleanup_fails"} }
    \cup { [geo |-> "none", current |-> <<>>, outcome |-> "ok"],
           [geo |-> "found", current |-> <<>>, outcome |-> "ok"] }

\* The store after successful saves for "pq" at the hours of SeedHours for
\* which rain is not negative, with that rain.
SeedHours == <<0, 2, 8, 9>>

RECURSIVE stored_after(_, _, _)
stored_after(rain, i, acc) ==
    IF i > Len(SeedHours) THEN acc
    ELSE IF rain[i] < 0 THEN stored_after(rain, i + 1, acc)
    ELSE LET saved == save_weather_data(
                          TRUE, acc.place, acc.hist, <<"p", "q">>,
                          [temp |-> 30, wind_speed |-> 10, rain_1h |-> rain[i]],
                          <<17, 78>>, <<>>, SeedHours[i] * SecondsPerHour, "ok")
         IN  stored_after(rain, i + 1, [place |-> saved.place,
                                        hist |-> saved.hist])

InitIngest ==
    /\ history = <<>>
    /\ now = 0
    /\ pc = "idle"
    /\ result = NoResult
    /\ db = TRUE
    /\ users = Subscribers
    /\ outbox = <<>>
    /\ queries = 0
    /\ request = NoRequest
    /\ \E rain \in [1..Len(SeedHours) -> {-1, 0, 30}] :
         \E seeded \in {stored_after(rain, 1, [place |-> <<>>, hist |-> <<>>])} :
             /\ hist = seeded.hist
             /\ place = seeded.place
    /\ tasks = <<>>
    /\ clock = 10 * SecondsPerHour
    /\ LAST_BG_INGEST = DatetimeMin
    /\ response = NoRequest

\* A run of ingest_weather at the time of the clock.
Ingest ==
    /\ queries < MaxQueries
    /\ \E replies \in [1..Len(ConfiguredPlaces) -> IngestReplies] :
         \E done \in {ingest_weather(ConfiguredPlaces, replies, db, place, hist,
                                     users, clock)} :
             /\ place' = done.place
             /\ hist' = done.hist
             /\ outbox' = outbox \o done.sent
             /\ queries' = queries + done.queried
             /\ request' = [kind |-> "ingest", at |-> clock,
                            processed |-> done.processed,
                            recalculated |-> done.recalculated,
                            weather |-> done.weather]
             /\ response' = [kind |-> "ingested", status |-> "OK"]
             /\ IF done.processed /\ done.recalculated
                THEN /\ history' = done.handed
                     /\ now' = clock
                     /\ result' = done.risk_result
                ELSE UNCHANGED <<history, now, result>>
    /\ pc' = "ingested"
    /\ UNCHANGED <<db, users, tasks, clock, LAST_BG_INGEST>>

NextIngest == Ingest \/ Tick

SpecIngest == InitIngest /\ [][NextIngest]_vars

RecalcReadings ==
    [temp : {14, 15, 30, 35, 36}, rain_1h : {0, 9, 10},
     wind_speed : {0, 39, 40}]

CachedConditions == [temp : {19, 30, 31}, rain : {5, 6}, wind : {29, 30}]

\* the time of the calls of should_recalculate_risk
RecalcTime == 2 * SecondsPerHour

CachedRisks ==
    { <<>> }
    \cup [risk_level : {"LOW"},
          calculated_at : { Iso(RecalcTime), Iso(RecalcTime - 3600),
                            Iso(RecalcTime - 3601), Instant(RecalcTime),
                            Garbage },
          conditions_snapshot : CachedConditions]
    \cup [risk_level : {"LOW"}, conditions_snapshot : CachedConditions]

InitRecalc ==
    /\ history = <<>>
    /\ now = 0
    /\ pc = "call"
    /\ result = NoResult
    /\ db = TRUE
    /\ users = <<>>
    /\ outbox = <<>>
    /\ queries = 0
    /\ \E current_weather \in RecalcReadings, cached_risk \in CachedRisks :
         request = [kind |-> "recalculate",
                    current_weather |-> current_weather,
                    cached_risk |-> cached_risk]
    /\ hist = <<>>
    /\ place = <<>>
    /\ tasks = <<>>
    /\ clock = RecalcTime
    /\ LAST_BG_INGEST = DatetimeMin
    /\ response = NoRequest

\* A call should_recalculate_risk(current_weather, cached_risk).
Recalculate ==
    /\ pc = "call"
    /\ response' = [kind |-> "recalculate",
                    value |-> should_recalculate_risk(request.current_weather,
                                                      request.cached_risk,
                                                      clock)]
    /\ pc' = "done"
    /\ UNCHANGED <<history, now, result, db, users, outbox, queries, request,
                   hist, place, tasks, clock, LAST_BG_INGEST>>

NextRecalc == Recalculate

SpecRecalc == InitRecalc /\ [][NextRecalc]_vars

\* C26: should_recalculate_risk returns False exactly when a cached risk
\* exists, its calculated_at is readable and at most 1 hour old, the current
\* reading has 15 <= temp <= 35, rain < 10 and wind < 40, and temp, rain and
\* wind differ from the cached snapshot by less than 5, 5 and 10; otherwise
\* it returns True.
C26_CacheReuse ==
    (pc = "done" /\ request.kind = "recalculate") =>
        LET w == request.current_weather
            c == request.cached_risk
            dist(a, b) == IF a < b THEN b - a ELSE a - b
            reusable ==
                /\ DOMAIN c # {}
                /\ "calculated_at" \in DOMAIN c
                /\ c.calculated_at.kind = "iso"
                /\ clock - c.calculated_at.at <= 3600
                /\ 15 <= w.temp /\ w.temp <= 35
                /\ w.rain_1h < 10
                /\ w.wind_speed < 40
                /\ dist(w.temp, c.conditions_snapshot.temp) < 5
                /\ dist(w.rain_1h, c.conditions_snapshot.rain) < 5
                /\ dist(w.wind_speed, c.conditions_snapshot.wind) < 10
        IN  response.value = ~ reusable

\* a cache exactly one hour old is reused for a safe and stable reading
C26_Witness ==
    /\ pc = "done"
    /\ request.kind = "recalculate"
    /\ response.value = FALSE
    /\ clock - request.cached_risk.calculated_at.at = 3600
    /\ request.current_weather.temp = 35
    /\ request.current_weather.wind_speed = 39

(* POST /users/register, main.py:223-265.  A handler is an async function  *)
(* without an await, so one server process runs it from the query to the   *)
(* set without taking another request; the processes of a deployment       *)
(* (workers, or the old and the new instance during a redeploy) share the  *)
(* Firestore database and nothing else.  request[i] is the registration    *)
(* the process i is handling and response[i] its last answer.              *)

MaxInstances == 2

MaxRegistrations == 3

Instances == 1..MaxInstances

Registrations ==
    [email : {"a@x", "b@x"}, location : RequestNames,
     notify_disasters : {TRUE}]

NoRegistration == [stage |-> "idle"]

\* the query of main.py:233
existing_users(U, email) == { id \in DOMAIN U : U[id].email = email }

\* the document of main.py:238-247
user_data(user) ==
    [email |-> user.email, location |-> user.location,
     location_normalized |-> normalize_location(user.location),
     notify_disasters |-> user.notify_disasters]

SetOutcomes == {"ok", "set_fails"}

InitRegister ==
    /\ history = <<>>
    /\ now = 0
    /\ pc = "idle"
    /\ result = NoResult
    /\ db \in BOOLEAN
    /\ users = <<>>
    /\ outbox = <<>>
    /\ queries = 0
    /\ request = [i \in Instances |-> NoRegistration]
    /\ hist = <<>>
    /\ place = <<>>
    /\ tasks = <<>>
    /\ clock = 0
    /\ LAST_BG_INGEST = DatetimeMin
    /\ response = [i \in Instances |-> NoRequest]

\* main.py:226-235: the process i takes a request; without a database it
\* answers 503, for an email the query finds it answers 400, otherwise it
\* goes on to create the document.
RegisterCheck ==
    /\ queries < MaxRegistrations
    /\ \E i \in Instances, user \in Registrations :
         /\ request[i].stage = "idle"
         /\ IF ~ db
            THEN /\ response' = [response EXCEPT ![i] =
                                   Answer(503, "none", "Database unavailable",
                                          user.email)]
                 /\ UNCHANGED request
            ELSE IF existing_users(users, user.email) # {}
            THEN /\ response' = [response EXCEPT ![i] =
                                   Answer(400, "none",
                                          "User with this email already registered",
                                          user.email)]
                 /\ UNCHANGED request
            ELSE /\ request' = [request EXCEPT ![i] =
                                  [stage |-> "checked", user |-> user]]
                 /\ UNCHANGED response
    /\ queries' = queries + 1
    /\ pc' = "registering"
    /\ UNCHANGED <<history, now, result, db, users, outbox, hist, place,
                   tasks, clock, LAST_BG_INGEST>>

\* main.py:237-265: the process i creates the document under a fresh id and
\* answers success, or the set raises and it answers 500.
RegisterInsert ==
    /\ \E i \in Instances, outcome \in SetOutcomes :
         /\ request[i].stage = "checked"
         /\ request' = [request EXCEPT ![i] = NoRegistration]
         /\ IF outcome = "ok"
            THEN /\ users' = Append(users, user_data(request[i].user))
                 /\ response' = [response EXCEPT ![i] =
                                   Answer(200, "none", "success",
                                          request[i].user.email)]
            ELSE /\ users' = users
                 /\ response' = [response EXCEPT ![i] =
                                   Answer(500, "none",
                                          "Failed to register user",
                                          request[i].user.email)]
    /\ pc' = "registering"
    /\ UNCHANGED <<history, now, result, db, outbox, queries, hist, place,
                   tasks, clock, LAST_BG_INGEST>>

NextRegister == RegisterCheck \/ RegisterInsert

SpecRegister == InitRegister /\ [][NextRegister]_vars

\* C28: after any sequence of POST /users/register requests, concurrent
\* ones included, at most one user document exists per email.
C28_EmailUnique ==
    (pc = "registering") =>
        \A id1, id2 \in DOMAIN users :
            users[id1].email = users[id2].email => id1 = id2

(* Histories whose records were captured at arbitrary seconds, as the     *)
(* request handler and save_weather_data stamp them (main.py:86, 659).    *)

MaxLenDuration == 3

\* the time of the evaluation
DurationNow == 7 * SecondsPerHour

\* how long before the evaluation the records were captured, in seconds
CaptureAges == {0, 3600, 21400, 21590, 21600, 21700}

DurationObservations ==
    [temp : {30, 41}, wind_speed : {10}, rain_1h : {0},
     timestamp : { Iso(DurationNow - age) : age \in CaptureAges }]

\* newest first, as get_weather_history returns them
DurationHistories ==
    { h \in SeqsUpTo(DurationObservations, MaxLenDuration) :
        \A i \in 1..(Len(h) - 1) :
            h[i].timestamp.at > h[i + 1].timestamp.at }

InitDuration ==
    /\ history \in DurationHistories
    /\ now = DurationNow
    /\ pc = "call"
    /\ result = NoResult
    /\ ServiceIdle

SpecDuration == InitDuration /\ [][Next]_vars

\* C29: whenever evaluate_risk returns MEDIUM/HEATWAVE the reported
\* persistence_duration_hrs (rounded to 2 decimals, here in hundredths of an
\* hour) is below 6, and whenever it returns HIGH/HEATWAVE it is at least 6.
C29_DurationAgreesWithLevel ==
    ( /\ pc = "done"
      /\ result.status = "returned"
      /\ result.value.disaster_type = "HEATWAVE" )
    => /\ result.value.risk_level = "MEDIUM"
            => result.value.persistence_duration_hrs < 600
       /\ result.value.risk_level = "HIGH"
            => result.value.persistence_duration_hrs >= 600

(* The deployment of functions/main.py.  Its GET /weather hands the       *)
(* reading itself, a dict, to risk_engine.evaluate_risk and keeps only the *)
(* latest reading of a place, under location.lower().                      *)

lower(location) == [i \in DOMAIN location |-> lower_char(location[i])]

\* risk_engine.evaluate_risk applied to a dict or None: an empty one takes
\* the return of risk_engine.py:18-25, any other fails at history[0]
\* (line 27), a dict of string keys having no key 0
evaluate_risk_of_dict(weather_data, n) ==
    IF weather_data = <<>> THEN Returned(no_data_assessment(n))
    ELSE Raised("KeyError")

\* save_weather_data of functions/main.py:24-49, which succeeds or changes
\* nothing
functions_save_weather_data(dbv, P, location, weather_data, coordinates, t) ==
    IF ~ dbv THEN P
    ELSE Put(P, lower(location),
             Merge(Doc(P, lower(location)),
                   [location |-> location,
                    weather |-> Put(weather_data, "captured_at", Iso(t)),
                    updated_at |-> Instant(t),
                    coordinates |-> coordinates]))

\* functions/main.py:150-163: the evaluation and the answer; an exception of
\* the evaluator leaves the handler and the client gets 500
functions_assess(source, weather_data, P, t) ==
    LET risk_result == evaluate_risk_of_dict(weather_data, t)
    IN  [response |-> IF risk_result.status = "raised"
                      THEN Answer(500, source, risk_result.value.error, "None")
                      ELSE Answer(200, source, "success", "None"),
         evaluated |-> TRUE, handed |-> weather_data, result |-> risk_result,
         added |-> IF risk_result.status = "returned" /\ source = "live_api"
                   THEN <<[op |-> "ingest"]>> ELSE <<>>,
         place |-> P]

functions_refused(status, detail, P) ==
    [response |-> Answer(status, "none", detail, "None"),
     evaluated |-> FALSE, handed |-> <<>>, result |-> NoResult,
     added |-> <<>>, place |-> P]

\* get_weather_risk of functions/main.py:78-163, at the time t
functions_get_weather_risk(location, simulation, geo, api, dbv, P, t) ==
    IF simulation.scenario # "None"
    THEN IF simulation.readings = <<>>
         THEN functions_refused(404, "Simulation scenario not found", P)
         ELSE functions_assess(
                  "simulation",
                  Put(Put(simulation.readings[1], "location", location),
                      "captured_at", Iso(t)),
                  P, t)
    ELSE IF geo = "found" /\ api.current # <<>>
    THEN LET weather_data == Put(api.current[1], "location", location)
             saved == functions_save_weather_data(dbv, P, location,
                                                  weather_data, <<17, 78>>, t)
         IN  functions_assess(
                 "live_api",
                 IF dbv THEN Put(weather_data, "captured_at", Iso(t))
                 ELSE weather_data,
                 saved, t)
    ELSE IF dbv /\ lower(location) \in DOMAIN P
    THEN functions_assess("verified_cache",
                          Get(P[lower(location)], "weather", <<>>), P, t)
    ELSE functions_refused(503, "Weather service unavailable", P)

InitFunctions ==
    /\ history = <<>>
    /\ now = 0
    /\ pc = "idle"
    /\ result = NoResult
    /\ db \in BOOLEAN
    /\ users = <<>>
    /\ outbox = <<>>
    /\ queries = 0
    /\ request = NoRequest
    /\ hist = <<>>
    /\ place = <<>>
    /\ tasks = <<>>
    /\ clock = 0
    /\ LAST_BG_INGEST = DatetimeMin
    /\ response = NoRequest

\* A GET /weather request of the functions/ deployment, answered at the
\* time of the clock.
FunctionsGetWeather ==
    /\ \E location \in RequestNames, simulation \in Simulations,
          geo \in GeocoderReplies, api \in ApiReplies :
         \E served \in {functions_get_weather_risk(location, simulation, geo,
                                                   api, db, place, clock)} :
             /\ request' = [kind |-> "functions_weather",
                            location |-> location, at |-> clock,
                            handed |-> IF served.evaluated THEN "dict"
                                       ELSE "nothing"]
             /\ response' = served.response
             /\ tasks' = tasks \o served.added
             /\ place' = served.place
             /\ IF served.evaluated
                THEN /\ history' = served.handed
                     /\ now' = clock
                     /\ result' = served.result
                ELSE UNCHANGED <<history, now, result>>
    /\ pc' = "served"
    /\ UNCHANGED <<db, users, outbox, queries, hist, clock, LAST_BG_INGEST>>

NextFunctions == FunctionsGetWeather \/ Tick

SpecFunctions == InitFunctions /\ [][NextFunctions]_vars

\* C30: in the functions/ deployment, GET /weather hands the evaluator a
\* newest-first sequence of observations and, for every reading it obtains
\* (simulated, live or cached), answers with status success (200) and the
\* evaluator's assessment of that reading.
C30_FunctionsAssessReading ==
    ( /\ pc = "served"
      /\ request.kind = "functions_weather"
      /\ response.source \in {"simulation", "live_api", "verified_cache"} )
    => /\ request.handed = "list"
       /\ response.status = 200
       /\ result.status = "returned"
       /\ result.value.risk_level \in {"LOW", "MEDIUM", "HIGH"}

====
